---------------------------- MODULE Spec2Model ----------------------------
(***************************************************************************)
(* Model of the CodeConverter component and of its conversion function     *)
(* performConversion.                                                      *)
(*                                                                         *)
(* A string is a sequence of one-character strings, so that trim, split,   *)
(* includes, startsWith, substring and replace are computed character by   *)
(* character, as the JavaScript string methods compute them.               *)
(*                                                                         *)
(* sourceLanguage is left out: it is passed to performConversion, which    *)
(* never reads it.                                                         *)
(***************************************************************************)
EXTENDS Integers, Sequences, FiniteSets, TLC

VARIABLES
  inputCode,               \* useState("") : text of the input textarea
  outputCode,              \* useState("") : text of the output textarea
  targetLanguage,          \* useState("python")
  isConverting,            \* useState(false)
  warnings,                \* useState<string[]>([])
  unsupportedConstructs,   \* useState<string[]>([])
  pending,                 \* performConversion calls whose timer has not fired
  toast,                   \* title of the last toast shown
  lastCall                 \* arguments of the call whose report is displayed

vars ==
  <<inputCode, outputCode, targetLanguage, isConverting, warnings,
    unsupportedConstructs, pending, toast, lastCall>>

---------------------------------------------------------------------------
(* String literals of the source.                                          *)

\* NL is the string '\n'
NL == <<"\n">>
\* SP is the string ' '
SP == <<" ">>
\* HASH is the string '#'
HASH == <<"#">>
\* EQ is the string '='
EQ == <<"=">>
\* EQEQ is the string '=='
EQEQ == <<"=", "=">>
\* SP_EQ_SP is the string ' = '
SP_EQ_SP == <<" ", "=", " ">>
\* ECHO_SP is the string 'echo '
ECHO_SP == <<"e", "c", "h", "o", " ">>
\* PRINT_SP is the string 'print '
PRINT_SP == <<"p", "r", "i", "n", "t", " ">>
\* PRINT_LPAREN is the string 'print('
PRINT_LPAREN == <<"p", "r", "i", "n", "t", "(">>
\* RPAREN is the string ')'
RPAREN == <<")">>
\* DQUOTE is the string '"'
DQUOTE == <<"\"">>
\* IF_SP is the string 'if '
IF_SP == <<"i", "f", " ">>
\* LBRACKET_SP is the string '[ '
LBRACKET_SP == <<"[", " ">>
\* SP_RBRACKET is the string ' ]'
SP_RBRACKET == <<" ", "]">>
\* DASH_EQ is the string '-eq'
DASH_EQ == <<"-", "e", "q">>
\* DASH_NE is the string '-ne'
DASH_NE == <<"-", "n", "e">>
\* DASH_LT is the string '-lt'
DASH_LT == <<"-", "l", "t">>
\* DASH_GT is the string '-gt'
DASH_GT == <<"-", "g", "t">>
\* PY_EQ is the string '=='
PY_EQ == <<"=", "=">>
\* PY_NE is the string '!='
PY_NE == <<"!", "=">>
\* PY_LT is the string '<'
PY_LT == <<"<">>
\* PY_GT is the string '>'
PY_GT == <<">">>
\* COLON is the string ':'
COLON == <<":">>
\* FOR_SP is the string 'for '
FOR_SP == <<"f", "o", "r", " ">>
\* SP_IN_SP is the string ' in '
SP_IN_SP == <<" ", "i", "n", " ">>
\* SEMI is the string ';'
SEMI == <<";">>
\* SP_DO is the string ' do'
SP_DO == <<" ", "d", "o">>
\* HASH_SP is the string '# '
HASH_SP == <<"#", " ">>
\* MANUAL_SUFFIX is the string ' - Manual conversion required'
MANUAL_SUFFIX ==
  <<" ", "-", " ", "M", "a", "n", "u", "a", "l", " ", "c", "o", "n", "v", "e", "r", "s", "i",
    "o", "n", " ", "r", "e", "q", "u", "i", "r", "e", "d">>
\* COMPLEX_FOR_MSG is the string 'Complex for loop requires manual review: '
COMPLEX_FOR_MSG ==
  <<"C", "o", "m", "p", "l", "e", "x", " ", "f", "o", "r", " ", "l", "o", "o", "p", " ", "r",
    "e", "q", "u", "i", "r", "e", "s", " ", "m", "a", "n", "u", "a", "l", " ", "r", "e", "v",
    "i", "e", "w", ":", " ">>
\* WHILE_SP is the string 'while '
WHILE_SP == <<"w", "h", "i", "l", "e", " ">>
\* CAT_SP is the string 'cat '
CAT_SP == <<"c", "a", "t", " ">>
\* READ_CSV_OPEN is the string 'df = spark.read.csv("'
READ_CSV_OPEN ==
  <<"d", "f", " ", "=", " ", "s", "p", "a", "r", "k", ".", "r", "e", "a", "d", ".", "c", "s",
    "v", "(", "\"">>
\* READ_CSV_CLOSE is the string '", header=True)'
READ_CSV_CLOSE == <<"\"", ",", " ", "h", "e", "a", "d", "e", "r", "=", "T", "r", "u", "e", ")">>
\* GREP_SP is the string 'grep '
GREP_SP == <<"g", "r", "e", "p", " ">>
\* FILTER_OPEN is the string 'df.filter(df.value.contains("'
FILTER_OPEN ==
  <<"d", "f", ".", "f", "i", "l", "t", "e", "r", "(", "d", "f", ".", "v", "a", "l", "u", "e",
    ".", "c", "o", "n", "t", "a", "i", "n", "s", "(", "\"">>
\* FILTER_CLOSE is the string '"))'
FILTER_CLOSE == <<"\"", ")", ")">>
\* AWK_SP is the string 'awk '
AWK_SP == <<"a", "w", "k", " ">>
\* AWK_MSG is the string 'AWK command: '
AWK_MSG == <<"A", "W", "K", " ", "c", "o", "m", "m", "a", "n", "d", ":", " ">>
\* UNSUPPORTED_MARK is the string '# Unsupported construct: '
UNSUPPORTED_MARK ==
  <<"#", " ", "U", "n", "s", "u", "p", "p", "o", "r", "t", "e", "d", " ", "c", "o", "n", "s",
    "t", "r", "u", "c", "t", ":", " ">>
\* UNSUPPORTED_LOG is the string '# Log: "Unsupported construct: awk"'
UNSUPPORTED_LOG ==
  <<"#", " ", "L", "o", "g", ":", " ", "\"", "U", "n", "s", "u", "p", "p", "o", "r", "t", "e",
    "d", " ", "c", "o", "n", "s", "t", "r", "u", "c", "t", ":", " ", "a", "w", "k", "\"">>
\* MANUAL_MSG is the string 'Line may need manual conversion: '
MANUAL_MSG ==
  <<"L", "i", "n", "e", " ", "m", "a", "y", " ", "n", "e", "e", "d", " ", "m", "a", "n", "u",
    "a", "l", " ", "c", "o", "n", "v", "e", "r", "s", "i", "o", "n", ":", " ">>
\* PYSPARK_IMPORT_1 is the string 'from pyspark.sql import SparkSession'
PYSPARK_IMPORT_1 ==
  <<"f", "r", "o", "m", " ", "p", "y", "s", "p", "a", "r", "k", ".", "s", "q", "l", " ", "i",
    "m", "p", "o", "r", "t", " ", "S", "p", "a", "r", "k", "S", "e", "s", "s", "i", "o", "n">>
\* PYSPARK_IMPORT_2 is the string 'import pyspark.sql.functions as F'
PYSPARK_IMPORT_2 ==
  <<"i", "m", "p", "o", "r", "t", " ", "p", "y", "s", "p", "a", "r", "k", ".", "s", "q", "l",
    ".", "f", "u", "n", "c", "t", "i", "o", "n", "s", " ", "a", "s", " ", "F">>
\* PYSPARK_COMMENT is the string '# Initialize SparkSession'
PYSPARK_COMMENT ==
  <<"#", " ", "I", "n", "i", "t", "i", "a", "l", "i", "z", "e", " ", "S", "p", "a", "r", "k",
    "S", "e", "s", "s", "i", "o", "n">>
\* PYSPARK_SESSION is the string 'spark = SparkSession.builder.appName('ConvertedScript').getOrCreate()'
PYSPARK_SESSION ==
  <<"s", "p", "a", "r", "k", " ", "=", " ", "S", "p", "a", "r", "k", "S", "e", "s", "s", "i",
    "o", "n", ".", "b", "u", "i", "l", "d", "e", "r", ".", "a", "p", "p", "N", "a", "m", "e",
    "(", "'", "C", "o", "n", "v", "e", "r", "t", "e", "d", "S", "c", "r", "i", "p", "t", "'",
    ")", ".", "g", "e", "t", "O", "r", "C", "r", "e", "a", "t", "e", "(", ")">>
\* PYTHON_IMPORT_1 is the string 'import os'
PYTHON_IMPORT_1 == <<"i", "m", "p", "o", "r", "t", " ", "o", "s">>
\* PYTHON_IMPORT_2 is the string 'import re'
PYTHON_IMPORT_2 == <<"i", "m", "p", "o", "r", "t", " ", "r", "e">>
\* PYTHON_IMPORT_3 is the string 'import sys'
PYTHON_IMPORT_3 == <<"i", "m", "p", "o", "r", "t", " ", "s", "y", "s">>

---------------------------------------------------------------------------
(* JavaScript string and array methods.                                    *)

WhiteSpace == {" ", "\t"}

SetMin(S) == CHOOSE x \in S : \A y \in S : x <= y

SetMax(S) == CHOOSE x \in S : \A y \in S : y <= x

\* String.prototype.trim
trim(s) ==
  LET keep == {i \in 1..Len(s) : s[i] \notin WhiteSpace}
  IN  IF keep = {} THEN <<>> ELSE SubSeq(s, SetMin(keep), SetMax(keep))

\* String.prototype.startsWith
startsWith(s, p) == Len(p) <= Len(s) /\ SubSeq(s, 1, Len(p)) = p

\* String.prototype.indexOf, 1-based; 0 when p does not occur in s
indexOf(s, p) ==
  LET at == {i \in 1..(Len(s) - Len(p) + 1) : SubSeq(s, i, i + Len(p) - 1) = p}
  IN  IF at = {} THEN 0 ELSE SetMin(at)

\* String.prototype.includes
includes(s, p) == indexOf(s, p) # 0

\* String.prototype.substring(n): the text after the first n characters
substring(s, n) == SubSeq(s, n + 1, Len(s))

\* String.prototype.replace with a string pattern, or with a regular
\* expression without the g flag: the first occurrence only
replace(s, p, r) ==
  LET i == indexOf(s, p)
  IN  IF i = 0 THEN s
      ELSE SubSeq(s, 1, i - 1) \o r \o SubSeq(s, i + Len(p), Len(s))

\* String.prototype.replace with a regular expression with the g flag
RECURSIVE replaceAll(_, _, _)
replaceAll(s, p, r) ==
  LET i == indexOf(s, p)
  IN  IF i = 0 THEN s
      ELSE SubSeq(s, 1, i - 1) \o r
             \o replaceAll(SubSeq(s, i + Len(p), Len(s)), p, r)

\* String.prototype.split(sep): every piece between occurrences of sep
RECURSIVE split(_, _)
split(s, sep) ==
  LET i == indexOf(s, sep)
  IN  IF i = 0 THEN <<s>>
      ELSE <<SubSeq(s, 1, i - 1)>> \o split(SubSeq(s, i + Len(sep), Len(s)), sep)

\* String.prototype.split(sep, limit): the first limit pieces of split(sep)
splitLimit(s, sep, limit) ==
  LET all == split(s, sep)
  IN  SubSeq(all, 1, IF Len(all) < limit THEN Len(all) ELSE limit)

\* Array.prototype.join
RECURSIVE join(_, _)
join(arr, sep) ==
  IF arr = <<>> THEN <<>>
  ELSE IF Len(arr) = 1 THEN arr[1]
  ELSE arr[1] \o sep \o join(Tail(arr), sep)

---------------------------------------------------------------------------
(* performConversion: the preamble, the rules of the line loop in the      *)
(* order the loop tests them, and the loop.                                *)

TargetLanguages == {"python", "pyspark"}

\* The imports pushed before the loop
Preamble(target) ==
  IF target = "pyspark"
  THEN <<PYSPARK_IMPORT_1, PYSPARK_IMPORT_2, <<>>, PYSPARK_COMMENT, PYSPARK_SESSION, <<>>>>
  ELSE <<PYTHON_IMPORT_1, PYTHON_IMPORT_2, PYTHON_IMPORT_3, <<>>>>

\* What one iteration of the loop pushes: lines onto convertedLines, entries
\* onto warnings and unsupportedConstructs; threw when it raises a TypeError
Pushed(out, warn, unsup) ==
  [out |-> out, warn |-> warn, unsup |-> unsup, threw |-> FALSE]

Thrown == [out |-> <<>>, warn |-> <<>>, unsup |-> <<>>, threw |-> TRUE]

\* if (!trimmedLine || trimmedLine.startsWith('#'))
IsBlankOrComment(trimmedLine) ==
  trimmedLine = <<>> \/ startsWith(trimmedLine, HASH)

\* Mutant: the trimmed line is pushed instead of the raw line
BlankOrCommentRuleTrimmed(line) == Pushed(<<trim(line)>>, <<>>, <<>>)

BlankOrCommentRule(line) == Pushed(<<line>>, <<>>, <<>>)

\* if (trimmedLine.includes('=') && !trimmedLine.includes('=='))
IsAssignment(trimmedLine) ==
  includes(trimmedLine, EQ) /\ ~includes(trimmedLine, EQEQ)

\* const [varName, value] = trimmedLine.split('=', 2): value is undefined,
\* and value.trim() raises, when split yields fewer than two pieces
AssignmentRule(trimmedLine) ==
  LET parts == splitLimit(trimmedLine, EQ, 2)
  IN  IF Len(parts) < 2 THEN Thrown
      ELSE Pushed(<<trim(parts[1]) \o SP_EQ_SP \o trim(parts[2])>>, <<>>, <<>>)

EchoRule(trimmedLine) ==
  LET content == replaceAll(substring(trimmedLine, 5), DQUOTE, DQUOTE)
  IN  Pushed(<<PRINT_LPAREN \o content \o RPAREN>>, <<>>, <<>>)

PrintRule(trimmedLine) ==
  Pushed(<<replace(trimmedLine, PRINT_SP, PRINT_LPAREN) \o RPAREN>>, <<>>, <<>>)

IfRule(trimmedLine) ==
  LET condition ==
        replace(replace(substring(trimmedLine, 3), LBRACKET_SP, <<>>), SP_RBRACKET, <<>>)
      rewritten ==
        replace(replace(replace(replace(condition, DASH_EQ, PY_EQ), DASH_NE, PY_NE),
                        DASH_LT, PY_LT), DASH_GT, PY_GT)
  IN  Pushed(<<IF_SP \o rewritten \o COLON>>, <<>>, <<>>)

ForRule(trimmedLine) ==
  IF includes(trimmedLine, SP_IN_SP)
  THEN LET parts == split(trimmedLine, SP_IN_SP)
       IN  IF Len(parts) < 2 THEN Thrown
           ELSE LET varName == replace(parts[1], FOR_SP, <<>>)
                    iterable == replace(replace(parts[2], SEMI, <<>>), SP_DO, <<>>)
                IN  Pushed(<<FOR_SP \o varName \o SP_IN_SP \o iterable \o COLON>>,
                           <<>>, <<>>)
  ELSE Pushed(<<HASH_SP \o trimmedLine \o MANUAL_SUFFIX>>,
              <<COMPLEX_FOR_MSG \o trimmedLine>>, <<>>)

WhileRule(trimmedLine) ==
  LET condition == replace(replace(substring(trimmedLine, 6), SEMI, <<>>), SP_DO, <<>>)
      rewritten == replace(replace(condition, DASH_LT, PY_LT), DASH_GT, PY_GT)
  IN  Pushed(<<WHILE_SP \o rewritten \o COLON>>, <<>>, <<>>)

\* Mutant: the file-read rule is not gated by the target language
IsFileReadUngated(trimmedLine, target) == includes(trimmedLine, CAT_SP)

\* if (trimmedLine.includes('cat ') && targetLanguage === "pyspark")
IsFileRead(trimmedLine, target) ==
  includes(trimmedLine, CAT_SP) /\ target = "pyspark"

CatRule(trimmedLine) ==
  LET filename == replace(trimmedLine, CAT_SP, <<>>)
  IN  Pushed(<<READ_CSV_OPEN \o filename \o READ_CSV_CLOSE>>, <<>>, <<>>)

\* if (trimmedLine.includes('grep ') && targetLanguage === "pyspark")
IsFilter(trimmedLine, target) ==
  includes(trimmedLine, GREP_SP) /\ target = "pyspark"

GrepRule(trimmedLine) ==
  LET parts == split(trimmedLine, GREP_SP)
  IN  IF Len(parts) > 1
      THEN LET pattern == split(parts[2], SP)[1]
           IN  Pushed(<<FILTER_OPEN \o pattern \o FILTER_CLOSE>>, <<>>, <<>>)
      ELSE Pushed(<<>>, <<>>, <<>>)

\* Mutant: the awk rule lacks its continue and runs into the default case
AwkRuleNoContinue(trimmedLine) ==
  Pushed(<<UNSUPPORTED_MARK \o trimmedLine, UNSUPPORTED_LOG, HASH_SP \o trimmedLine>>,
         <<MANUAL_MSG \o trimmedLine>>, <<AWK_MSG \o trimmedLine>>)

AwkRule(trimmedLine) ==
  Pushed(<<UNSUPPORTED_MARK \o trimmedLine, UNSUPPORTED_LOG>>,
         <<>>, <<AWK_MSG \o trimmedLine>>)

FallbackRule(trimmedLine) ==
  Pushed(<<HASH_SP \o trimmedLine>>, <<MANUAL_MSG \o trimmedLine>>, <<>>)

\* The body of the loop: the first rule whose test succeeds, then continue
LineResult(line, target) ==
  LET trimmedLine == trim(line)
  IN  IF IsBlankOrComment(trimmedLine) THEN BlankOrCommentRule(line)
      ELSE IF IsAssignment(trimmedLine) THEN AssignmentRule(trimmedLine)
      ELSE IF startsWith(trimmedLine, ECHO_SP) THEN EchoRule(trimmedLine)
      ELSE IF startsWith(trimmedLine, PRINT_SP) THEN PrintRule(trimmedLine)
      ELSE IF startsWith(trimmedLine, IF_SP) THEN IfRule(trimmedLine)
      ELSE IF startsWith(trimmedLine, FOR_SP) THEN ForRule(trimmedLine)
      ELSE IF startsWith(trimmedLine, WHILE_SP) THEN WhileRule(trimmedLine)
      ELSE IF IsFileRead(trimmedLine, target) THEN CatRule(trimmedLine)
      ELSE IF IsFilter(trimmedLine, target) THEN GrepRule(trimmedLine)
      ELSE IF includes(trimmedLine, AWK_SP) THEN AwkRule(trimmedLine)
      ELSE FallbackRule(trimmedLine)

\* Mutant: an item already in the array is not pushed again
pushUnique(arr, items) ==
  arr \o SelectSeq(items, LAMBDA x : \A k \in 1..Len(arr) : arr[k] # x)

\* Array.prototype.push of the items, in order, at the end of arr
push(arr, items) == arr \o items

\* for (const line of lines): acc holds convertedLines, warnings and
\* unsupportedConstructs; an iteration that raises ends the call
RECURSIVE ConvertLoop(_, _, _, _)
ConvertLoop(lines, target, i, acc) ==
  IF i > Len(lines) THEN acc
  ELSE LET r == LineResult(lines[i], target)
       IN  IF r.threw THEN [acc EXCEPT !.threw = TRUE]
           ELSE ConvertLoop(lines, target, i + 1,
                  [convertedLines        |-> push(acc.convertedLines, r.out),
                   warnings              |-> push(acc.warnings, r.warn),
                   unsupportedConstructs |-> push(acc.unsupportedConstructs, r.unsup),
                   threw                 |-> FALSE])

\* The report the promise resolves with (threw: the promise rejects)
performConversion(code, target) ==
  LET lines == split(code, NL)
      final == ConvertLoop(lines, target, 1,
                 [convertedLines        |-> Preamble(target),
                  warnings              |-> <<>>,
                  unsupportedConstructs |-> <<>>,
                  threw                 |-> FALSE])
  IN  [convertedCode         |-> join(final.convertedLines, NL),
       warnings              |-> final.warnings,
       unsupportedConstructs |-> final.unsupportedConstructs,
       threw                 |-> final.threw]

---------------------------------------------------------------------------
(* The CodeConverter component.                                            *)

NoCall == [code |-> <<>>, targetLanguage |-> "none"]

\* Mutant: the Convert button stays enabled during a conversion
ButtonNeverDisabled == FALSE

\* <Button onClick={convertCode} disabled={isConverting}>
ButtonDisabled == isConverting

\* <Textarea onChange={(e) => setInputCode(e.target.value)}>
SetInputCode(text) ==
  /\ inputCode' = text
  /\ UNCHANGED <<outputCode, targetLanguage, isConverting, warnings,
                 unsupportedConstructs, pending, toast, lastCall>>

\* <Select value={targetLanguage} onValueChange={setTargetLanguage}>
SetTargetLanguage(target) ==
  /\ targetLanguage' = target
  /\ UNCHANGED <<inputCode, outputCode, isConverting, warnings,
                 unsupportedConstructs, pending, toast, lastCall>>

\* A click on the Convert button: convertCode up to its await
convertCode ==
  /\ ~ButtonDisabled
  /\ IF trim(inputCode) = <<>>
     THEN /\ toast' = "No code to convert"
          /\ UNCHANGED <<isConverting, pending>>
     ELSE /\ isConverting' = TRUE
          /\ pending' = Append(pending, [code |-> inputCode,
                                         targetLanguage |-> targetLanguage])
          /\ UNCHANGED toast
  /\ UNCHANGED <<inputCode, outputCode, targetLanguage, warnings,
                 unsupportedConstructs, lastCall>>

\* The timer of the oldest pending call fires: performConversion runs to its
\* end and convertCode resumes after its await (try, catch, finally)
ConversionSettles ==
  /\ pending # <<>>
  /\ LET call   == Head(pending)
         result == performConversion(call.code, call.targetLanguage)
     IN  IF result.threw
         THEN /\ toast' = "Conversion failed"
              /\ UNCHANGED <<outputCode, warnings, unsupportedConstructs, lastCall>>
         ELSE /\ outputCode' = result.convertedCode
              /\ warnings' = result.warnings
              /\ unsupportedConstructs' = result.unsupportedConstructs
              /\ toast' = "Conversion completed"
              /\ lastCall' = call
  /\ isConverting' = FALSE
  /\ pending' = Tail(pending)
  /\ UNCHANGED <<inputCode, targetLanguage>>

---------------------------------------------------------------------------
(* Input texts.                                                            *)

\* LINE_ASSIGN is the string 'x=5'
LINE_ASSIGN == <<"x", "=", "5">>
\* LINE_ASSIGN_TWICE is the string 'a=b=c'
LINE_ASSIGN_TWICE == <<"a", "=", "b", "=", "c">>
\* LINE_ECHO is the string 'echo hello'
LINE_ECHO == <<"e", "c", "h", "o", " ", "h", "e", "l", "l", "o">>
\* LINE_PRINT is the string 'print "hi"'
LINE_PRINT == <<"p", "r", "i", "n", "t", " ", "\"", "h", "i", "\"">>
\* LINE_IF is the string 'if [ $x -eq 1 ]'
LINE_IF == <<"i", "f", " ", "[", " ", "$", "x", " ", "-", "e", "q", " ", "1", " ", "]">>
\* LINE_IF_TWICE is the string 'if [ $a -eq 1 -o $b -eq 2 ]'
LINE_IF_TWICE ==
  <<"i", "f", " ", "[", " ", "$", "a", " ", "-", "e", "q", " ", "1", " ", "-", "o", " ", "$",
    "b", " ", "-", "e", "q", " ", "2", " ", "]">>
\* LINE_FOR_C is the string 'for ((i=0;i<5;i++))'
LINE_FOR_C ==
  <<"f", "o", "r", " ", "(", "(", "i", "=", "0", ";", "i", "<", "5", ";", "i", "+", "+", ")",
    ")">>
\* LINE_FOR_EVER is the string 'for ((;;))'
LINE_FOR_EVER == <<"f", "o", "r", " ", "(", "(", ";", ";", ")", ")">>
\* LINE_FOR_IN is the string 'for f in a b; do'
LINE_FOR_IN ==
  <<"f", "o", "r", " ", "f", " ", "i", "n", " ", "a", " ", "b", ";", " ", "d", "o">>
\* LINE_WHILE_LT is the string 'while [ $i -lt 5 ]; do'
LINE_WHILE_LT ==
  <<"w", "h", "i", "l", "e", " ", "[", " ", "$", "i", " ", "-", "l", "t", " ", "5", " ", "]",
    ";", " ", "d", "o">>
\* LINE_WHILE_NE is the string 'while [ $i -ne 0 ]; do'
LINE_WHILE_NE ==
  <<"w", "h", "i", "l", "e", " ", "[", " ", "$", "i", " ", "-", "n", "e", " ", "0", " ", "]",
    ";", " ", "d", "o">>
\* LINE_CAT is the string 'cat data.csv'
LINE_CAT == <<"c", "a", "t", " ", "d", "a", "t", "a", ".", "c", "s", "v">>
\* LINE_GREP is the string 'grep foo data.txt'
LINE_GREP ==
  <<"g", "r", "e", "p", " ", "f", "o", "o", " ", "d", "a", "t", "a", ".", "t", "x", "t">>
\* LINE_CAT_AWK is the string 'cat f | awk x'
LINE_CAT_AWK == <<"c", "a", "t", " ", "f", " ", "|", " ", "a", "w", "k", " ", "x">>
\* LINE_GREP_AWK is the string 'grep a f | awk x'
LINE_GREP_AWK ==
  <<"g", "r", "e", "p", " ", "a", " ", "f", " ", "|", " ", "a", "w", "k", " ", "x">>
\* LINE_AWK is the string 'awk x'
LINE_AWK == <<"a", "w", "k", " ", "x">>
\* LINE_AWK_ASSIGN is the string 'n=$(awk x f)'
LINE_AWK_ASSIGN == <<"n", "=", "$", "(", "a", "w", "k", " ", "x", " ", "f", ")">>
\* LINE_OTHER is the string 'ls'
LINE_OTHER == <<"l", "s">>
\* LINE_COMMENT is the string ' # c'
LINE_COMMENT == <<" ", "#", " ", "c">>
\* LINE_TAB_ASSIGN is the string '\tx=5'
LINE_TAB_ASSIGN == <<"\t", "x", "=", "5">>

\* Pieces a typed line is made of
Fragments ==
  {<<"x">>, EQ, SP, HASH, FOR_SP, SP_IN_SP, IF_SP, DASH_EQ, WHILE_SP, CAT_SP,
   GREP_SP, AWK_SP, ECHO_SP, PRINT_SP}

MaxFrags == 3

MaxLines == 2

\* The lines made of at most n fragments
RECURSIVE Concats(_)
Concats(n) ==
  IF n = 0 THEN {<<>>}
  ELSE LET shorter == Concats(n - 1)
       IN  shorter \cup {s \o f : s \in shorter, f \in Fragments}

SampleLines ==
  {LINE_ASSIGN, LINE_ASSIGN_TWICE, LINE_ECHO, LINE_PRINT, LINE_IF, LINE_IF_TWICE,
   LINE_FOR_C, LINE_FOR_EVER, LINE_FOR_IN, LINE_WHILE_LT, LINE_WHILE_NE, LINE_CAT,
   LINE_GREP, LINE_CAT_AWK, LINE_GREP_AWK, LINE_AWK, LINE_AWK_ASSIGN, LINE_OTHER,
   LINE_COMMENT, LINE_TAB_ASSIGN}

\* The lines the multi-line texts are made of
ScriptLines ==
  {<<>>, LINE_COMMENT, LINE_ASSIGN, LINE_OTHER, LINE_AWK, LINE_FOR_EVER, LINE_GREP}

\* The texts of 2 to n lines of ScriptLines
Scripts(n) ==
  {join(ls, NL) : ls \in UNION {[1..k -> ScriptLines] : k \in 2..n}}

EngineTexts == Concats(MaxFrags) \cup SampleLines \cup Scripts(MaxLines)

UITexts == {<<>>, SP, LINE_ASSIGN, join(<<LINE_AWK, LINE_OTHER>>, NL)}

---------------------------------------------------------------------------
(* Specifications.                                                         *)

Init ==
  /\ inputCode = <<>>
  /\ outputCode = <<>>
  /\ targetLanguage = "python"
  /\ isConverting = FALSE
  /\ warnings = <<>>
  /\ unsupportedConstructs = <<>>
  /\ pending = <<>>
  /\ toast = "none"
  /\ lastCall = NoCall

Next ==
  \/ \E text \in UITexts : SetInputCode(text)
  \/ \E target \in TargetLanguages : SetTargetLanguage(target)
  \/ convertCode
  \/ ConversionSettles

Spec == Init /\ [][Next]_vars

\* setTimeout(resolve, 1500): the timer of the oldest pending call fires.
\* Under Next the steps of TimerFires that change pending are the steps of
\* ConversionSettles, and both are enabled exactly when pending is not empty.
TimerFires == pending # <<>> /\ pending' = Tail(pending)

\* A timer that was set always fires
FairSpec == Spec /\ WF_pending(TimerFires)

\* The component after the user has typed a text and chosen a target
EngineInit ==
  /\ inputCode \in EngineTexts
  /\ targetLanguage \in TargetLanguages
  /\ outputCode = <<>>
  /\ isConverting = FALSE
  /\ warnings = <<>>
  /\ unsupportedConstructs = <<>>
  /\ pending = <<>>
  /\ toast = "none"
  /\ lastCall = NoCall

EngineNext == convertCode \/ ConversionSettles

EngineSpec == EngineInit /\ [][EngineNext]_vars

---------------------------------------------------------------------------
(* What the claims speak of.                                               *)

\* A report is displayed: a performConversion call has resolved
Called == lastCall # NoCall

\* The input lines of the call whose report is displayed
calledLines == split(lastCall.code, NL)

calledTarget == lastCall.targetLanguage

\* The call's text is one line; theLine is that line, trimmed
SingleLine == Called /\ Len(calledLines) = 1

theLine == trim(calledLines[1])

\* The lines of outputCode after the preamble
reportBody ==
  LET outLines == split(outputCode, NL)
  IN  SubSeq(outLines, Len(Preamble(calledTarget)) + 1, Len(outLines))

NoDiagnostic == warnings = <<>> /\ unsupportedConstructs = <<>>

IsCommentLine(s) == startsWith(s, HASH)

\* A line that is neither blank nor a comment
Translatable(line) ==
  LET t == trim(line) IN t # <<>> /\ ~startsWith(t, HASH)

\* A trimmed line no rule before the file-read rule takes
NoEarlierRule(t) ==
  /\ t # <<>>
  /\ ~startsWith(t, HASH)
  /\ ~(includes(t, EQ) /\ ~includes(t, EQEQ))
  /\ ~startsWith(t, ECHO_SP)
  /\ ~startsWith(t, PRINT_SP)
  /\ ~startsWith(t, IF_SP)
  /\ ~startsWith(t, FOR_SP)
  /\ ~startsWith(t, WHILE_SP)

RECURSIVE concatAll(_)
concatAll(seqs) ==
  IF seqs = <<>> THEN <<>> ELSE Head(seqs) \o concatAll(Tail(seqs))

\* Every -eq, -ne, -lt, -gt of s rewritten once, in one pass from the left
RECURSIVE RewriteEveryOperator(_)
RewriteEveryOperator(s) ==
  IF s = <<>> THEN <<>>
  ELSE IF startsWith(s, DASH_EQ) THEN PY_EQ \o RewriteEveryOperator(substring(s, 3))
  ELSE IF startsWith(s, DASH_NE) THEN PY_NE \o RewriteEveryOperator(substring(s, 3))
  ELSE IF startsWith(s, DASH_LT) THEN PY_LT \o RewriteEveryOperator(substring(s, 3))
  ELSE IF startsWith(s, DASH_GT) THEN PY_GT \o RewriteEveryOperator(substring(s, 3))
  ELSE <<Head(s)>> \o RewriteEveryOperator(Tail(s))

---------------------------------------------------------------------------
(* The claims.                                                             *)

\* C1: a line that starts with 'for ' and has no ' in ' clause is translated
\* into exactly one comment line and exactly one warning that contains the
\* trimmed line, and adds nothing to unsupportedConstructs.
C1_ForWithoutIn ==
  (SingleLine /\ startsWith(theLine, FOR_SP) /\ ~includes(theLine, SP_IN_SP))
    => /\ Len(reportBody) = 1
       /\ IsCommentLine(reportBody[1])
       /\ Len(warnings) = 1
       /\ includes(warnings[1], theLine)
       /\ unsupportedConstructs = <<>>

\* C2: an Assignment line (it contains '=' and no '==') is split at the first
\* '=' only: the emitted line is '<name> = <value>', name the trimmed text
\* before the first '=', value the whole trimmed text after it; no diagnostic.
C2_AssignmentFirstEquals ==
  (SingleLine /\ Translatable(theLine)
     /\ includes(theLine, EQ) /\ ~includes(theLine, EQEQ))
    => LET at    == indexOf(theLine, EQ)
           name  == trim(SubSeq(theLine, 1, at - 1))
           value == trim(SubSeq(theLine, at + 1, Len(theLine)))
       IN  /\ reportBody = <<name \o SP_EQ_SP \o value>>
           /\ NoDiagnostic

\* C3: every non-blank, non-comment line that contains 'awk ' produces exactly
\* one unsupportedConstructs entry quoting the line and exactly two comment
\* lines; every unsupportedConstructs entry comes from exactly one such line.
C3_AwkAlwaysUnsupported ==
  Called =>
    LET awkLines == {i \in 1..Len(calledLines) :
                       /\ Translatable(calledLines[i])
                       /\ includes(trim(calledLines[i]), AWK_SP)}
    IN  /\ Len(unsupportedConstructs) = Cardinality(awkLines)
        /\ (SingleLine /\ awkLines # {})
             => /\ includes(unsupportedConstructs[1], theLine)
                /\ Len(reportBody) = 2
                /\ IsCommentLine(reportBody[1])
                /\ IsCommentLine(reportBody[2])

\* What C4 says of one line and of what the loop pushes for it; awkToo: the
\* 'python' half also covers the lines that contain 'awk '
GatingOf(line, target, r, awkToo) ==
  LET t == trim(line)
  IN  NoEarlierRule(t) =>
        /\ (target = "pyspark" /\ includes(t, CAT_SP))
             => /\ Len(r.out) = 1
                /\ startsWith(r.out[1], READ_CSV_OPEN)
                /\ r.warn = <<>> /\ r.unsup = <<>>
        /\ (target = "pyspark" /\ includes(t, GREP_SP) /\ ~includes(t, CAT_SP))
             => /\ Len(r.out) = 1
                /\ startsWith(r.out[1], FILTER_OPEN)
                /\ r.warn = <<>> /\ r.unsup = <<>>
        /\ (target = "python" /\ (includes(t, CAT_SP) \/ includes(t, GREP_SP))
              /\ (awkToo \/ ~includes(t, AWK_SP)))
             => /\ r.out = <<HASH_SP \o t>>
                /\ Len(r.warn) = 1
                /\ includes(r.warn[1], t)
                /\ r.unsup = <<>>

\* C4 as claimed: a line that contains 'cat ' (or 'grep ') and matches no
\* earlier rule yields the dataframe line and no diagnostic under 'pyspark',
\* and under 'python' the fallback: one comment echoing the trimmed line, one
\* warning, no unsupportedConstructs entry.
C4_GatingAsClaimed ==
  Called =>
    /\ \A i \in 1..Len(calledLines) :
         GatingOf(calledLines[i], calledTarget,
                  LineResult(calledLines[i], calledTarget), TRUE)
    /\ SingleLine =>
         GatingOf(calledLines[1], calledTarget,
                  [out |-> reportBody, warn |-> warnings,
                   unsup |-> unsupportedConstructs], TRUE)

\* C4, amended: dialect gating of the 'cat ' and 'grep ' rules, the 'python'
\* half for the lines that do not contain 'awk ': under 'pyspark' one
\* dataframe line and no diagnostic, under 'python' the fallback (one comment
\* echoing the trimmed line, one warning, no unsupportedConstructs entry).
\* It holds of every line of the call, and of the displayed report when the
\* call's text is one line.
C4_DialectGating ==
  Called =>
    /\ \A i \in 1..Len(calledLines) :
         GatingOf(calledLines[i], calledTarget,
                  LineResult(calledLines[i], calledTarget), FALSE)
    /\ SingleLine =>
         GatingOf(calledLines[1], calledTarget,
                  [out |-> reportBody, warn |-> warnings,
                   unsup |-> unsupportedConstructs], FALSE)

C4_Witness ==
  /\ SingleLine
  /\ calledTarget = "python"
  /\ NoEarlierRule(theLine)
  /\ includes(theLine, CAT_SP)
  /\ ~includes(theLine, AWK_SP)
  /\ reportBody = <<HASH_SP \o theLine>>
  /\ Len(warnings) = 1

\* C5: the number of warnings plus the number of unsupportedConstructs is at
\* most the number of non-blank, non-comment input lines.
C5_DiagnosticCount ==
  Called =>
    Len(warnings) + Len(unsupportedConstructs)
      <= Cardinality({i \in 1..Len(calledLines) : Translatable(calledLines[i])})

C5_Witness ==
  /\ Called
  /\ Len(calledLines) = 2
  /\ ~Translatable(calledLines[1])
  /\ Translatable(calledLines[2])
  /\ Len(warnings) + Len(unsupportedConstructs) = 1

\* C6: performConversion never raises, and convertedCode is the preamble
\* followed by one segment per input line, in input order; every segment has
\* at least one line, and the segment of a blank or comment line is the raw
\* input line alone.
C6_Totality ==
  /\ toast # "Conversion failed"
  /\ Called =>
       LET segments == [i \in 1..Len(calledLines) |->
                          LineResult(calledLines[i], calledTarget).out]
       IN  /\ split(outputCode, NL) = Preamble(calledTarget) \o concatAll(segments)
           /\ \A i \in 1..Len(calledLines) :
                /\ Len(segments[i]) >= 1
                /\ ~Translatable(calledLines[i]) => segments[i] = <<calledLines[i]>>

C6_Witness ==
  /\ Called
  /\ Len(calledLines) = 2
  /\ calledLines[1] = LINE_COMMENT
  /\ calledLines[2] = LINE_AWK
  /\ Len(reportBody) = 3
  /\ reportBody[1] = LINE_COMMENT

\* C7: warnings, and unsupportedConstructs, hold the entries of the input
\* lines in the order of the lines, none dropped, reordered or deduplicated.
C7_OrderPreserved ==
  Called =>
    /\ warnings =
         concatAll([i \in 1..Len(calledLines) |->
                      LineResult(calledLines[i], calledTarget).warn])
    /\ unsupportedConstructs =
         concatAll([i \in 1..Len(calledLines) |->
                      LineResult(calledLines[i], calledTarget).unsup])

C7_Witness ==
  /\ Called
  /\ Len(calledLines) = 2
  /\ calledLines[1] = calledLines[2]
  /\ Len(warnings) = 2
  /\ warnings[1] = warnings[2]

\* C8: a line the Conditional rule translates yields exactly one line
\* 'if <cond>:' and no diagnostic, <cond> the condition without its test
\* brackets and with every -eq, -ne, -lt, -gt rewritten exactly once.
C8_ConditionalRewrite ==
  (SingleLine /\ Translatable(theLine)
     /\ ~(includes(theLine, EQ) /\ ~includes(theLine, EQEQ))
     /\ startsWith(theLine, IF_SP))
    => LET cond == replaceAll(replaceAll(substring(theLine, 3), LBRACKET_SP, <<>>),
                              SP_RBRACKET, <<>>)
       IN  /\ reportBody = <<IF_SP \o RewriteEveryOperator(cond) \o COLON>>
           /\ NoDiagnostic

\* C9: a line the WhileLoop rule translates yields exactly one line
\* 'while <cond>:' and no diagnostic, <cond> without the ';' and ' do' tokens
\* and with -eq, -ne, -lt, -gt rewritten to ==, !=, <, >.
C9_WhileRewrite ==
  (SingleLine /\ Translatable(theLine)
     /\ ~(includes(theLine, EQ) /\ ~includes(theLine, EQEQ))
     /\ startsWith(theLine, WHILE_SP))
    => LET cond == replace(replace(substring(theLine, 6), SEMI, <<>>), SP_DO, <<>>)
       IN  /\ reportBody = <<WHILE_SP \o RewriteEveryOperator(cond) \o COLON>>
           /\ NoDiagnostic

\* C10: isConverting is true exactly while a performConversion call is
\* pending; a click with blank input starts no call and changes none of
\* isConverting, outputCode, warnings, unsupportedConstructs; every call that
\* was started settles and leaves isConverting false.
C10_ConvertingWhilePending ==
  /\ [](isConverting <=> pending # <<>>)
  /\ [][(convertCode /\ trim(inputCode) = <<>>)
          => UNCHANGED <<isConverting, outputCode, warnings,
                         unsupportedConstructs, pending>>]_vars
  /\ [][ConversionSettles => ~isConverting']_vars
  /\ (pending # <<>>) ~> (pending = <<>> /\ ~isConverting)

C10_Witness ==
  /\ isConverting
  /\ Len(pending) = 1
  /\ Called
  /\ toast = "Conversion completed"

=============================================================================
